---- MODULE Spec2Model ----
(***************************************************************************)
(* Portfolio construction of PeerZ0/Portfolio-Optimization-App.            *)
(*                                                                         *)
(* The model follows models/portfolio.py: Portfolio.__init__ downloads one *)
(* price series per requested ticker, _get_data joins and cleans them,     *)
(* and the three strategies (equal weight, minimum variance, maximum       *)
(* Sharpe) are evaluated once during construction.  The construction       *)
(* paths are models/terminal.py (perform_initialization),                  *)
(* pages/loading.py (process_portfolio) and services/optimize_portfolio.py.*)
(*                                                                         *)
(* Specifications:                                                         *)
(*   Spec         the construction of a Portfolio                          *)
(*   SpecClean    _get_data on every list of downloaded series             *)
(*   SpecUse      strategy evaluations and analytics calls on a            *)
(*                constructed Portfolio                                    *)
(*   SpecStats    the analytics on every pair of return series             *)
(*   SpecTreemap  create_weighted_sector_treemap on every weight mapping   *)
(*                and reference table                                      *)
(*   SpecList     build_available_tickers on every reference table and     *)
(*                every set of user preferences                            *)
(*   SpecPrompt   the attempts of get_preferred_stocks                     *)
(*   SpecWizard   the screens of models/terminal.py with the background    *)
(*                construction and the dashboard processes                 *)
(*                                                                         *)
(* Numbers: a price is a positive integer, a missing cell is NaN.  A       *)
(* weight is an exact fraction <<num, den>>; the rounding error of the     *)
(* float 1.0/n (at most 2^-53 per weight) is far below the 1e-6 tolerance  *)
(* of the claims and is not modelled.                                      *)
(***************************************************************************)
EXTENDS Integers, Sequences, FiniteSets, TLC

\* ------------------------------------------------------------------ bounds
\* trading dates are 1..NumDates
NumDates == 6
\* the solver's iterates lie on a grid of Steps steps per box side
Steps == 2

\* a session makes at most MaxSolverCalls calls of the solver
MaxSolverCalls == 4

\* ------------------------------------------------------- program constants
\* a missing cell (numpy NaN); every price is > NaN
NaN == 0
\* "if max_nan_streak >= 4"
StreakThreshold == 4
\* Portfolio.__init__(..., min_weight = 0.0, ...); no caller passes another
min_weight == <<0, 1>>
\* User.__init__ default of max_equity_investment
DefaultMaxEquity == 5

\* -------------------------------------------------------------- input sets
\* the reference universe of tickers the session can request
Universe == {"AAPL", "MSFT"}
\* values the user can store as max_equity_investment (0 < v <= 100)
MaxEquityChoices == {DefaultMaxEquity, 50, 100}
\* user.data has no 'min_equity_investment' key (User.__init__)
NoMinEquity == -1
\* what user.data['min_equity_investment'] can hold: nothing, or a percentage
\* below the maximum (gather_information, the __main__ of dashboard2.py)
MinEquityChoices == {NoMinEquity, 4}
\* the callers that construct a Portfolio: terminal.py, pages/loading.py,
\* main.py through services/optimize_portfolio.py ("cli"), and the __main__
\* blocks of models/dashboard.py and models/dashboard2.py, which fill
\* user.data themselves ("script")
Paths == {"terminal", "loading", "cli", "script"}
Dates == 1..NumDates

\* the adjusted close the provider quotes for ticker t on date d
Price(t, d) == (IF t = "AAPL" THEN 100 ELSE 200) + d * d

\* ----------------------------------------------------------------- helpers
Max(S) == CHOOSE x \in S : \A y \in S : y <= x
Min(S) == CHOOSE x \in S : \A y \in S : x <= y
Range(s) == {s[i] : i \in DOMAIN s}

RECURSIVE SortedSeq(_)
\* the ascending sequence of a finite set of integers (DataFrame.sort_index)
SortedSeq(S) == IF S = {} THEN <<>> ELSE <<Min(S)>> \o SortedSeq(S \ {Min(S)})

RECURSIVE FilterSeq(_, _)
\* s without the entries that are not in keep
FilterSeq(s, keep) ==
  IF s = <<>> THEN <<>>
  ELSE (IF Head(s) \in keep THEN <<Head(s)>> ELSE <<>>) \o FilterSeq(Tail(s), keep)

\* ------------------------------------------------- the market-data provider
\* A series the provider can return for ticker t: rows for the dates
\* start..NumDates, with one run of gapLen dates from gapAt on that is either
\* absent from the series or present with a NaN price.  start = NumDates + 1
\* is the empty series.
SeriesOf(t, start, gapAt, gapLen, kind) ==
  LET gap     == gapAt..(gapAt + gapLen - 1)
      present == {d \in start..NumDates : kind = "absent" => d \notin gap}
  IN  [d \in present |-> IF d \in gap THEN NaN ELSE Price(t, d)]

\* every series of that form: the inputs of the cleaning
SeriesSet(t) ==
  {SeriesOf(t, sh[1], sh[2], sh[3], sh[4]) :
     sh \in {x \in (1..(NumDates + 1)) \X Dates \X (0..NumDates) \X {"absent", "nan"} :
               x[2] >= x[1] /\ x[2] + x[3] - 1 <= NumDates}}

\* the series a whole session is run on: a complete series, one starting 1
\* or StreakThreshold dates late, the empty series, each also with its first
\* price missing, its second price missing, or all its prices missing
SessionSeries(t) ==
  {SeriesOf(t, sh[1], sh[2], sh[3], "nan") :
     sh \in {x \in {1, 2, StreakThreshold + 1, NumDates + 1} \X Dates \X (0..NumDates) :
               /\ x[2] \in {x[1], x[1] + 1}
               /\ x[3] \in {0, 1, NumDates + 1 - x[1]}
               /\ x[2] + x[3] - 1 <= NumDates}}

\* ------------------------------------------------------------ price matrix
\* a DataFrame: index (dates), columns (tickers, in order), values per column
EmptyFrame == [index |-> <<>>, columns |-> <<>>, values |-> <<>>]

NRows(df) == Len(df.index)
ColSet(df) == Range(df.columns)
IsNa(v) == v = NaN

\* pd.concat(data_list, axis=1).sort_index(): outer join on the dates
Concat(dl) ==
  LET idx == SortedSeq(UNION {DOMAIN dl[i].rows : i \in DOMAIN dl})
      col(i) == [r \in DOMAIN idx |->
                   IF idx[r] \in DOMAIN dl[i].rows THEN dl[i].rows[idx[r]] ELSE NaN]
  IN  [index   |-> idx,
       columns |-> [i \in DOMAIN dl |-> dl[i].ticker],
       values  |-> [t \in {dl[i].ticker : i \in DOMAIN dl} |->
                      col(CHOOSE i \in DOMAIN dl : dl[i].ticker = t)]]

\* the frame restricted to the columns in keep, column order kept
KeepColumns(df, keep) ==
  [index   |-> df.index,
   columns |-> FilterSeq(df.columns, keep),
   values  |-> [t \in ColSet(df) \cap keep |-> df.values[t]]]

\* data.dropna(axis=1, how='all'): a column stays iff it has a valid cell
DropAllNaN(df) ==
  KeepColumns(df, {t \in ColSet(df) : \E r \in DOMAIN df.values[t] : ~IsNa(df.values[t][r])})

\* FFillCol as ffill(limit=1) would do it: a missing cell is filled only from
\* the cell directly above it
FFillColLimitOne(c) ==
  [r \in DOMAIN c |-> IF IsNa(c[r]) /\ r > 1 THEN c[r - 1] ELSE c[r]]

\* Series.ffill(): a missing cell takes the last valid value above it
FFillCol(c) ==
  [r \in DOMAIN c |->
     LET valid == {j \in 1..r : ~IsNa(c[j])}
     IN  IF valid = {} THEN NaN ELSE c[Max(valid)]]

\* data.ffill(inplace=True)
FFill(df) == [df EXCEPT !.values = [t \in DOMAIN df.values |-> FFillCol(df.values[t])]]

\* isna().groupby((~isna()).cumsum()).cumsum().max(): the longest run of
\* consecutive missing cells of the column
MaxNanStreak(c) ==
  LET key(r)    == Cardinality({j \in 1..r : ~IsNa(c[j])})
      streak(r) == Cardinality({j \in 1..r : IsNa(c[j]) /\ key(j) = key(r)})
  IN  IF DOMAIN c = {} THEN 0 ELSE Max({streak(r) : r \in DOMAIN c})

\* StreakDrop dropping a column only when its streak exceeds the threshold
StreakDropAbove(df) ==
  LET kept == KeepColumns(df, {t \in ColSet(df) : ~(MaxNanStreak(df.values[t]) > StreakThreshold)})
  IN  FFill(kept)

\* the loop over data.columns: drop the column when its streak reaches the
\* threshold, forward-fill it (again) otherwise
StreakDrop(df) ==
  LET kept == KeepColumns(df, {t \in ColSet(df) : ~(MaxNanStreak(df.values[t]) >= StreakThreshold)})
  IN  FFill(kept)

\* "if pd.isna(data.iloc[0]).any() and len(data) > 1: data.iloc[0] = data.iloc[1]"
\* (defined for frames with at least one row)
BackfillFirstRow(df) ==
  IF (\E t \in ColSet(df) : IsNa(df.values[t][1])) /\ NRows(df) > 1
  THEN [df EXCEPT !.values = [t \in DOMAIN df.values |->
                                [df.values[t] EXCEPT ![1] = df.values[t][2]]]]
  ELSE df

\* the cleaning steps of _get_data up to the first-row test
CleanColumns(df) == StreakDrop(FFill(DropAllNaN(df)))

\* data.iloc[0] raises IndexError on a frame without rows
CleanRaises(df) == NRows(CleanColumns(df)) = 0

\* the cleaning steps of _get_data applied to a joined frame
Clean(df) == BackfillFirstRow(CleanColumns(df))

\* ---------------------------------------------------------------- fractions
Zero == <<0, 1>>
One == <<1, 1>>
RatLeq(a, b) == a[1] * b[2] <= b[1] * a[2]
RatEq(a, b) == a[1] * b[2] = b[1] * a[2]
RatAdd(a, b) == IF a[2] = b[2] THEN <<a[1] + b[1], a[2]>>
                ELSE <<a[1] * b[2] + b[1] * a[2], a[2] * b[2]>>
RatSub(a, b) == RatAdd(a, <<0 - b[1], b[2]>>)
RatMul(a, b) == <<a[1] * b[1], a[2] * b[2]>>

RECURSIVE SumSeq(_)
\* np.sum(x)
SumSeq(x) == IF x = <<>> THEN Zero ELSE RatAdd(Head(x), SumSeq(Tail(x)))

\* ------------------------------------------------------------------ returns
\* A return is a fraction <<num, den>>; a denominator 0 is "not a number"
\* (the NaN of a float computation).
NaR == <<0, 0>>
IsNaR(x) == x[2] = 0

\* Series.pct_change(): prices are padded forward first (fill_method='pad'),
\* then price / previous price - 1; the first row has no previous price
PctChangeCol(c) ==
  LET p == FFillCol(c)
  IN  [r \in DOMAIN c |->
         IF r = 1 THEN NaR
         ELSE IF IsNa(p[r]) \/ IsNa(p[r - 1]) THEN NaR
         ELSE <<p[r] - p[r - 1], p[r - 1]>>]

\* DataFrame.pct_change()
PctChange(df) ==
  [df EXCEPT !.values = [t \in DOMAIN df.values |-> PctChangeCol(df.values[t])]]

\* DataFrame.dropna(): a row stays iff none of its cells is missing (every row
\* of a frame without columns stays)
DropNaRows(df) ==
  LET rows == SortedSeq({r \in 1..NRows(df) : \A t \in ColSet(df) : ~IsNaR(df.values[t][r])})
  IN  [index   |-> [i \in DOMAIN rows |-> df.index[rows[i]]],
       columns |-> df.columns,
       values  |-> [t \in DOMAIN df.values |-> [i \in DOMAIN rows |-> df.values[t][rows[i]]]]]

\* calculate_returns: self.data.pct_change().dropna()
CalculateReturns(df) == DropNaRows(PctChange(df))

\* The statistics of the return matrix are computed on returns in whole basis
\* points (the float return rounded down to 4 decimals), so that sums of
\* products stay exact.
Bp(x) == (x[1] * 10000) \div x[2]

RECURSIVE SumInt(_)
SumInt(s) == IF s = <<>> THEN 0 ELSE Head(s) + SumInt(Tail(s))

\* self.returns.mean(): per column sum / count; not a number without rows
MeanReturns(ret) ==
  [t \in ColSet(ret) |->
     <<SumInt([r \in 1..NRows(ret) |-> Bp(ret.values[t][r])]), NRows(ret)>>]

\* self.returns.cov(): the sample covariance (divisor n - 1) of every pair of
\* columns, n * sum(xy) - sum(x) * sum(y) over n * (n - 1); not a number with
\* fewer than two rows
CovMatrix(ret) ==
  LET n == NRows(ret)
      x(t) == [r \in 1..n |-> Bp(ret.values[t][r])]
  IN  [t \in ColSet(ret) |-> [u \in ColSet(ret) |->
         <<n * SumInt([r \in 1..n |-> x(t)[r] * x(u)[r]]) - SumInt(x(t)) * SumInt(x(u)),
           n * (n - 1)>>]]

\* yf.download('^GSPC', start, end)['Adj Close']: the benchmark has a price on
\* every trading date
DownloadBenchmark ==
  Concat(<<[ticker |-> "^GSPC", rows |-> [d \in Dates |-> Price("^GSPC", d)]]>>)

\* ---------------------------------------------------------------- optimizer
\* MakeBounds with one entry too many
MakeBoundsOneMore(n, max_equity_investment) ==
  [i \in 1..(n + 1) |-> <<Zero, <<max_equity_investment, 100>>>>]

\* tuple((0, max_equity_investment / 100) for _ in range(len(self.tickers)))
MakeBounds(n, max_equity_investment) == [i \in 1..n |-> <<Zero, <<max_equity_investment, 100>>>>]

\* {'type': 'eq', 'fun': lambda x: np.sum(x) - 1}
EqConstraint(x) == RatEq(SumSeq(x), One)
\* {'type': 'ineq', 'fun': lambda x: np.sum(x) - len(self.tickers) * min_weight}
IneqConstraint(x, n) == RatLeq(RatMul(<<n, 1>>, min_weight), SumSeq(x))

\* UniformWeights dividing by one asset too many
UniformWeightsOffByOne(n) == [i \in 1..n |-> <<1, n + 1>>]

\* np.ones(num_assets) / num_assets
UniformWeights(n) == [i \in 1..n |-> <<1, n>>]

\* the points of one box side the solver can stop at
GridPoints(b) == {RatAdd(b[1], RatMul(<<k, Steps>>, RatSub(b[2], b[1]))) : k \in 0..Steps}

InBox(x, bnds) == \A i \in DOMAIN x : RatLeq(bnds[i][1], x[i]) /\ RatLeq(x[i], bnds[i][2])

\* scipy.optimize.minimize(fun, x0, method='SLSQP', bounds, constraints): the
\* results the solver can hand back.  x0 is clipped to the box and every
\* iterate stays in it; success means the constraints hold at result.x; a run
\* that does not converge (infeasible constraints, iteration limit) stops at
\* any iterate.  Which feasible point is optimal depends on the covariance
\* matrix and is left open.
Minimize(n, bnds) ==
  LET box == {x \in [1..n -> UNION {GridPoints(bnds[i]) : i \in 1..n}] :
                \A i \in 1..n : x[i] \in GridPoints(bnds[i])}
  IN  {[x |-> x, success |-> TRUE] : x \in {y \in box : EqConstraint(y) /\ IneqConstraint(y, n)}}
      \cup {[x |-> x, success |-> FALSE] : x \in box}

\* dict(zip(self.tickers, x))
Zip(tk, x) ==
  LET m == IF Len(tk) <= Len(x) THEN Len(tk) ELSE Len(x)
  IN  [t \in {tk[i] : i \in 1..m} |-> x[Max({i \in 1..m : tk[i] = t})]]

\* equal_weight_portfolio
EqualWeightPortfolio(tk) == Zip(tk, UniformWeights(Len(tk)))

\* what min_variance_portfolio / max_sharpe_ratio_portfolio return for a result
SolverPortfolio(tk, result) == Zip(tk, result.x)

\* ---------------------------------------------------------------- analytics
\* A return series is a function from its dates to returns.  The series the
\* analytics are examined on have whole-percent returns <<k, 100>>, so every
\* sum below is a sum of numerators over the common denominator.
Pct(x) == x[1]

\* the trading dates of the analytics inputs are 1..NumStatDates
NumStatDates == 3
StatDates == 1..NumStatDates
ReturnSeries ==
  UNION {[idx -> {<<k, 100>> : k \in {-1, 0, 1}}] : idx \in SUBSET StatDates}

\* pd.concat([portfolio_returns, benchmark_returns], axis=1): outer join on
\* the dates, a cell is missing where the series has no row
ConcatSeries(p, b) ==
  LET idx == SortedSeq(DOMAIN p \cup DOMAIN b)
  IN  [index     |-> idx,
       portfolio |-> [r \in DOMAIN idx |-> IF idx[r] \in DOMAIN p THEN p[idx[r]] ELSE NaR],
       benchmark |-> [r \in DOMAIN idx |-> IF idx[r] \in DOMAIN b THEN b[idx[r]] ELSE NaR]]

\* the rows in keep, in order
KeepRows(f, keep) ==
  LET rows == SortedSeq(keep)
  IN  [index     |-> [i \in DOMAIN rows |-> f.index[rows[i]]],
       portfolio |-> [i \in DOMAIN rows |-> f.portfolio[rows[i]]],
       benchmark |-> [i \in DOMAIN rows |-> f.benchmark[rows[i]]]]

\* DropNaPairs as fillna(0) would do it: every row stays, a missing cell
\* becomes a return of 0
FillNaPairs(f) ==
  [index     |-> f.index,
   portfolio |-> [r \in DOMAIN f.index |-> IF IsNaR(f.portfolio[r]) THEN <<0, 100>> ELSE f.portfolio[r]],
   benchmark |-> [r \in DOMAIN f.index |-> IF IsNaR(f.benchmark[r]) THEN <<0, 100>> ELSE f.benchmark[r]]]

\* .dropna() of the two-column frame: a row stays iff both cells are present
DropNaPairs(f) ==
  KeepRows(f, {r \in DOMAIN f.index : ~IsNaR(f.portfolio[r]) /\ ~IsNaR(f.benchmark[r])})

\* pd.concat([...], axis=1).dropna() (get_summary_statistics_table,
\* plot_rolling_volatility)
AlignDropna(p, b) == DropNaPairs(ConcatSeries(p, b))

\* pd.concat([...], axis=1, join="inner") (plot_cumulative_returns): the rows
\* of the outer join whose date is in both indexes
AlignInner(p, b) ==
  LET f == ConcatSeries(p, b)
  IN  KeepRows(f, {r \in DOMAIN f.index : f.index[r] \in DOMAIN p /\ f.index[r] \in DOMAIN b})

\* the class of a float: "nan", or the sign of the number.  Ratios whose
\* value is irrational (a return over a square root) are kept as their class.
SignOf(x) ==
  IF IsNaR(x) THEN "nan"
  ELSE IF x[1] = 0 THEN "zero"
  ELSE IF (x[1] > 0) = (x[2] > 0) THEN "pos" ELSE "neg"

\* the class of a / b; x / 0 of numpy floats is inf (nan for 0 / 0)
Quotient(a, b) ==
  IF a = "nan" \/ b = "nan" THEN "nan"
  ELSE IF b = "zero" THEN (IF a = "zero" THEN "nan" ELSE "inf")
  ELSE IF a = "zero" THEN "zero"
  ELSE IF a = b THEN "pos" ELSE "neg"

\* "x != 0" on a float: true for every non-zero number and for nan
NotZero(x) == IsNaR(x) \/ x[1] # 0

\* a / b on exact fractions; nan and division by 0 give a denominator 0
RatDiv(a, b) ==
  IF IsNaR(a) \/ IsNaR(b) \/ b[1] = 0 THEN NaR
  ELSE IF a[2] = b[2] /\ b[1] > 0 THEN <<a[1], b[1]>>
  ELSE IF b[1] > 0 THEN <<a[1] * b[2], a[2] * b[1]>>
  ELSE <<(0 - a[1]) * b[2], a[2] * (0 - b[1])>>

\* trading days per year
TradingDays == 252

\* calculate_metrics(returns) of get_summary_statistics_table:
\*   daily_ret  returns.mean()
\*   vol_sq     the square of vol = returns.std() * sqrt(252), std with divisor n - 1
\*   down_sq    the square of down_dev = sqrt(mean(neg_returns ** 2)) * sqrt(252)
\*   sharpe     yearly_ret / vol if vol != 0 else 0
\*   sortino    yearly_ret / down_dev if down_dev != 0 else 0
\* yearly_ret = (1 + daily_ret) ** 252 - 1 has the class of daily_ret.
CalculateMetrics(rs) ==
  LET n         == Len(rs)
      k         == [i \in 1..n |-> Pct(rs[i])]
      IsNeg(v)  == v < 0
      neg       == SelectSeq(k, IsNeg)
      daily_ret == <<SumInt(k), 100 * n>>
      vol_sq    == <<TradingDays * (n * SumInt([i \in 1..n |-> k[i] * k[i]]) - SumInt(k) * SumInt(k)),
                     10000 * n * (n - 1)>>
      down_sq   == <<TradingDays * SumInt([i \in 1..Len(neg) |-> neg[i] * neg[i]]),
                     10000 * Len(neg)>>
      yearly    == SignOf(daily_ret)
  IN  [daily_ret |-> daily_ret,
       vol_sq    |-> vol_sq,
       down_sq   |-> down_sq,
       sharpe    |-> IF NotZero(vol_sq) THEN Quotient(yearly, SignOf(vol_sq)) ELSE "zero",
       sortino   |-> IF NotZero(down_sq) THEN Quotient(yearly, SignOf(down_sq)) ELSE "zero"]

\* np.cov(portfolio_returns, benchmark_returns)[0][1]: divisor n - 1
Covariance(pr, br) ==
  LET n == Len(pr)
      x == [i \in 1..n |-> Pct(pr[i])]
      y == [i \in 1..n |-> Pct(br[i])]
  IN  <<n * SumInt([i \in 1..n |-> x[i] * y[i]]) - SumInt(x) * SumInt(y), 10000 * n * (n - 1)>>

\* np.var(benchmark_returns): numpy's default divisor n
MarketVariance(br) ==
  LET n == Len(br)
      y == [i \in 1..n |-> Pct(br[i])]
  IN  <<n * SumInt([i \in 1..n |-> y[i] * y[i]]) - SumInt(y) * SumInt(y), 10000 * n * n>>

\* beta = covariance / market_variance if market_variance != 0 else 0
Beta(pr, br) ==
  IF NotZero(MarketVariance(br)) THEN RatDiv(Covariance(pr, br), MarketVariance(br)) ELSE Zero

\* the 'Metric' column of the table get_summary_statistics_table returns: one
\* row per statistic it reports
MetricNames ==
  {"Period", "Cumulative Return", "CAGR", "Expected Daily Return",
   "Expected Monthly Return", "Expected Yearly Return", "Annualized Volatility",
   "Beta", "Sharpe Ratio", "Sortino Ratio", "Skewness", "Kurtosis"}

\* get_summary_statistics_table on the weighted portfolio returns p and the
\* benchmark returns b: total_years = len(returns) / 252 is 0.0 on an empty
\* aligned series and 1 / total_years raises ZeroDivisionError
SummaryStatisticsTable(p, b) ==
  LET a == AlignDropna(p, b)
  IN  IF Len(a.index) = 0
      THEN [raised |-> "ZeroDivisionError"]
      ELSE [raised    |-> "none",
            Metric    |-> MetricNames,
            aligned   |-> a,
            portfolio |-> CalculateMetrics(a.portfolio),
            benchmark |-> CalculateMetrics(a.benchmark),
            beta      |-> Beta(a.portfolio, a.benchmark)]

RECURSIVE CumProd(_)
\* (1 + returns).cumprod()
CumProd(rs) ==
  IF rs = <<>> THEN <<>>
  ELSE LET before == CumProd(SubSeq(rs, 1, Len(rs) - 1))
           last   == rs[Len(rs)]
           growth == <<last[2] + last[1], last[2]>>
       IN  Append(before, IF before = <<>> THEN growth
                          ELSE RatMul(before[Len(before)], growth))

\* plot_cumulative_returns: the two cumulative series the figure shows
CumulativeReturns(p, b) ==
  LET a == AlignInner(p, b)
  IN  [raised |-> "none", aligned |-> a,
       portfolio |-> CumProd(a.portfolio), benchmark |-> CumProd(a.benchmark)]

\* rolling(window=63)
RollingWindow == 63

\* returns.rolling(window=63).std() * sqrt(252), kept as its square: not a
\* number until the window is full
RollingVolSq(rs) ==
  [i \in DOMAIN rs |->
     IF i < RollingWindow THEN NaR
     ELSE CalculateMetrics(SubSeq(rs, i - RollingWindow + 1, i)).vol_sq]

\* plot_rolling_volatility: the two volatility series the figure shows
RollingVolatility(p, b) ==
  LET a == AlignDropna(p, b)
  IN  [raised |-> "none", aligned |-> a,
       portfolio |-> RollingVolSq(a.portfolio), benchmark |-> RollingVolSq(a.benchmark)]

\* ------------------------------------------------------------ sector treemap
\* "if weight >= 0.0001"
MinDisplayWeight == <<1, 10000>>

RECURSIVE SumOver(_, _)
\* the sum of f over the keys in S
SumOver(f, S) ==
  IF S = {} THEN Zero
  ELSE LET t == CHOOSE u \in S : TRUE
       IN  RatAdd(f[t], SumOver(f, S \ {t}))

\* the stock rows of create_weighted_sector_treemap: a ticker gets a row when
\* its sector lookup succeeds and its weight reaches the threshold; a ticker
\* without an entry in ticker_data.csv raises IndexError at .values[0], which
\* the "except Exception" of the loop swallows
StockRows(tk, weights, ticker_data) ==
  {t \in Range(tk) : /\ t \in DOMAIN ticker_data
                     /\ RatLeq(MinDisplayWeight, weights[t])}

\* df.groupby('Parent')['Weight'].sum(), then the filter on the threshold
SectorWeights(rows, weights, ticker_data) ==
  LET sum(sec) == SumOver(weights, {t \in rows : ticker_data[t] = sec})
  IN  [sec \in {x \in {ticker_data[t] : t \in rows} : RatLeq(MinDisplayWeight, sum(x))} |->
         sum(sec)]

\* df.groupby('Parent')['Weight'].transform(lambda x: 100 * x / x.sum())
NormalizedWeight(t, rows, weights, ticker_data) ==
  RatDiv(RatMul(<<100, 1>>, weights[t]),
         SumOver(weights, {u \in rows : ticker_data[u] = ticker_data[t]}))

\* create_weighted_sector_treemap(weights): ValueError when a ticker has no
\* weight; KeyError from df.groupby('Parent') when no row was collected;
\* otherwise the sector rows and the stock rows of the figure
WeightedSectorTreemap(tk, weights, ticker_data) ==
  LET rows == StockRows(tk, weights, ticker_data)
  IN  IF Range(tk) \ DOMAIN weights # {} THEN [raised |-> "ValueError"]
      ELSE IF rows = {} THEN [raised |-> "KeyError"]
      ELSE [raised  |-> "none",
            sectors |-> SectorWeights(rows, weights, ticker_data),
            stocks  |-> [t \in rows |->
                           [Parent   |-> ticker_data[t],
                            Weight   |-> weights[t],
                            Weight_n |-> NormalizedWeight(t, rows, weights, ticker_data)]]]

\* ------------------------------------------------------- the ticker list
\* the rows of static/ticker_data.csv are records with the fields Ticker,
\* sector and overallRisk; a missing sector is "nan", a missing risk is NaN
\* "required_columns" of build_available_tickers
RequiredColumns == {"Ticker", "sector", "marketCap", "currentPrice", "overallRisk"}
\* "df['overallRisk'].fillna(5)"
DefaultRisk == 5

\* df['sector'].fillna('Unknown'); df['overallRisk'].fillna(5)
FillMissing(df) ==
  [i \in DOMAIN df |->
     [Ticker      |-> df[i].Ticker,
      sector      |-> IF df[i].sector = "nan" THEN "Unknown" ELSE df[i].sector,
      overallRisk |-> IF IsNa(df[i].overallRisk) THEN DefaultRisk ELSE df[i].overallRisk]]

\* FilterByUserPreferences comparing the risk with "<"
FilterByUserPreferencesBelow(df, user_data) ==
  LET NotAvoided(row) == row.sector \notin user_data.sectors_to_avoid
      Tolerated(row)  == row.overallRisk < user_data.risk_tolerance
      a == IF user_data.sectors_to_avoid # {} THEN SelectSeq(df, NotAvoided) ELSE df
  IN  IF user_data.risk_tolerance # 0 THEN SelectSeq(a, Tolerated) ELSE a

\* filter_by_user_preferences: each filter is applied when its preference is
\* truthy (a non-empty list, a non-zero number)
FilterByUserPreferences(df, user_data) ==
  LET NotAvoided(row) == row.sector \notin user_data.sectors_to_avoid
      Tolerated(row)  == row.overallRisk <= user_data.risk_tolerance
      a == IF user_data.sectors_to_avoid # {} THEN SelectSeq(df, NotAvoided) ELSE df
  IN  IF user_data.risk_tolerance # 0 THEN SelectSeq(a, Tolerated) ELSE a

\* build_available_tickers(user) on the file csv: a missing file is caught
\* (FileNotFoundError) and gives []; the ValueError raised for a missing
\* required column is raised inside the try block and caught by its
\* "except Exception", which also gives []; otherwise the preferred rows of
\* the table followed by the filtered rows of the rest
BuildAvailableTickers(user_data, csv) ==
  IF ~csv.found THEN [raised |-> "none", tickers |-> <<>>]
  ELSE IF ~(RequiredColumns \subseteq csv.columns) THEN [raised |-> "none", tickers |-> <<>>]
  ELSE LET df               == FillMissing(csv.rows)
           Preferred(row)   == row.Ticker \in user_data.preferred_stocks
           Other(row)       == row.Ticker \notin user_data.preferred_stocks
           preferred_df     == SelectSeq(df, Preferred)
           available_df     == FilterByUserPreferences(SelectSeq(df, Other), user_data)
           final_df         == preferred_df \o available_df
       IN  [raised |-> "none", tickers |-> [i \in DOMAIN final_df |-> final_df[i].Ticker]]

\* ---------------------------------------------- the preferred-stocks prompt
\* get_preferred_stocks(available_tickers, max_attempts = 3)
max_attempts == 3

\* A typed line is the sequence of its pieces between commas; a piece is the
\* symbol it spells (none for a piece of blanks), in lower or upper case,
\* with or without blanks around it.
\* ticker.strip().upper() of a piece
StripUpper(piece) == piece.sym

\* input(...).strip() is the empty string: a line of blanks without a comma
IsEmptyLine(stocks) == Len(stocks) = 1 /\ stocks[1].sym = ""

\* {ticker.strip().upper() for ticker in stocks.split(",") if ticker.strip()}
InputTickers(stocks) ==
  {StripUpper(stocks[i]) : i \in {j \in DOMAIN stocks : stocks[j].sym # ""}}

\* AttemptOutcome returning the valid tickers of a partly invalid line
AttemptOutcomeKeepValid(stocks, available_tickers) ==
  LET input_tickers == InputTickers(stocks)
      valid_tickers == {t \in input_tickers : t \in available_tickers}
  IN  IF IsEmptyLine(stocks) THEN [continue |-> TRUE]
      ELSE IF input_tickers = {} THEN [continue |-> TRUE]
      ELSE [continue |-> FALSE, tickers |-> valid_tickers]

\* one pass of the loop of get_preferred_stocks on the typed line: continue
\* on an empty line, on a line without a ticker and on a line with an
\* invalid ticker; otherwise return the (all valid) tickers of the line.
\* The list is built from a set, so it is kept as the set of its tickers.
AttemptOutcome(stocks, available_tickers) ==
  LET input_tickers   == InputTickers(stocks)
      valid_tickers   == {t \in input_tickers : t \in available_tickers}
      invalid_tickers == {t \in input_tickers : t \notin available_tickers}
  IN  IF IsEmptyLine(stocks) THEN [continue |-> TRUE]
      ELSE IF input_tickers = {} THEN [continue |-> TRUE]
      ELSE IF invalid_tickers # {} THEN [continue |-> TRUE]
      ELSE [continue |-> FALSE, tickers |-> valid_tickers]

\* ------------------------------------------- the inputs of the terminal wizard
\* User.__init__ default of risk_tolerance
DefaultRiskTolerance == 3

\* what the user types into the risk field
RiskTexts == {"abc", "0", "7", "11"}
\* int(event.value): the number, or ValueError for a text that is not an
\* integer literal
IntOf(text) ==
  CASE text = "0"  -> [raised |-> "none", value |-> 0]
    [] text = "7"  -> [raised |-> "none", value |-> 7]
    [] text = "11" -> [raised |-> "none", value |-> 11]
    [] OTHER       -> [raised |-> "ValueError"]

\* what the user types into the field of the maximum investment
MaxTexts == {"0", "100", "101", "nan"}
\* float(max_input): the number, not-a-number for "nan", or ValueError
FloatOf(text) ==
  CASE text = "0"   -> [raised |-> "none", nan |-> FALSE, value |-> 0]
    [] text = "100" -> [raised |-> "none", nan |-> FALSE, value |-> 100]
    [] text = "101" -> [raised |-> "none", nan |-> FALSE, value |-> 101]
    [] text = "nan" -> [raised |-> "none", nan |-> TRUE, value |-> 0]
    [] OTHER        -> [raised |-> "ValueError"]

\* RiskAccepted storing every integer
RiskAcceptedAnyInt(text) == IntOf(text).raised = "none"

\* RiskScreen.on_input_changed stores the entry: "risk = int(event.value)"
\* succeeds and "1 <= risk <= 10"
RiskAccepted(text) ==
  /\ IntOf(text).raised = "none"
  /\ 1 <= IntOf(text).value /\ IntOf(text).value <= 10

\* validate_constraints returns True: "max_equity = float(max_input)" succeeds
\* and "0 < max_equity <= 100" (false for not-a-number)
ConstraintsValid(text) ==
  /\ FloatOf(text).raised = "none"
  /\ ~FloatOf(text).nan
  /\ 0 < FloatOf(text).value /\ FloatOf(text).value <= 100

\* "valid_stocks = [s for s in stocks if s in df['Ticker'].values]" of
\* StocksScreen.on_input_changed, with stocks the stripped, upper-cased,
\* non-empty pieces of the line; kept as the set of its tickers (its one
\* reader, build_available_tickers, makes a set of it)
ValidStocks(line, rows) ==
  {StripUpper(line[i]) : i \in {j \in DOMAIN line :
     line[j].sym # "" /\ \E r \in DOMAIN rows : rows[r].Ticker = StripUpper(line[j])}}

\* -------------------------------------------------------------------- state
VARIABLES
  pc,             \* position of the session in the construction
  path,           \* "terminal" (perform_initialization), "loading" (process_portfolio)
                  \* or "cli" (optimize_portfolio)
  user,           \* user.data: available_stocks, max_equity_investment,
                  \* min_equity_investment
  todo,           \* tickers the download loop of _get_data has not visited yet
  data_list,      \* _get_data's list of downloaded series
  data,           \* Portfolio.data
  tickers,        \* Portfolio.tickers (a set before cleaning, the column list after)
  bounds,         \* Portfolio.bounds
  weights_eq,     \* Portfolio.weights_eq
  weights_min,    \* Portfolio.weights_min
  weights_sharpe, \* Portfolio.weights_sharpe
  invoked,        \* strategies whose method has been entered
  solver_calls,   \* number of minimize calls made
  error,          \* the stage whose exception ended the construction, or "none"
  returns,        \* Portfolio.returns
  mean_returns,   \* Portfolio.mean_returns
  cov_matrix,     \* Portfolio.cov_matrix
  sp500,          \* Portfolio.sp500
  sp500_returns,  \* Portfolio.sp500_returns
  solver,         \* the minimize runs made so far: arguments and result
  args,           \* the call made on the constructed portfolio: method, arguments
  ret,            \* what that call returned to its caller
  app             \* the terminal wizard (PortfolioApp): screen stack, input
                  \* widgets, initialization task, dashboard processes

vars == <<pc, path, user, todo, data_list, data, tickers, bounds,
          weights_eq, weights_min, weights_sharpe, invoked, solver_calls, error,
          returns, mean_returns, cov_matrix, sp500, sp500_returns, solver, args, ret,
          app>>

\* the fields __init__ derives from the cleaned prices and the benchmark
stats == <<returns, mean_returns, cov_matrix, sp500, sp500_returns>>
\* a call on the constructed portfolio
call == <<args, ret>>

\* everything but the position, the error and the call
session == <<path, user, todo, data_list, data, tickers, bounds, weights_eq,
             weights_min, weights_sharpe, invoked, solver_calls, stats, solver, app>>

NoCall == [method |-> "none"]
\* no wizard is running (the session was started by a page or a script, or
\* the wizard is not looked at)
NoApp == [screen_stack |-> <<>>]
NoStats ==
  /\ returns = EmptyFrame
  /\ mean_returns = <<>>
  /\ cov_matrix = <<>>
  /\ sp500 = EmptyFrame
  /\ sp500_returns = EmptyFrame

NoWeights == <<>>

\* the session after the preferences were gathered: User.__init__ defaults
\* overwritten by the input screens; terminal.py and the pages never store a
\* minimum per equity
Init ==
  /\ pc = "idle"
  /\ path \in Paths
  /\ user \in [available_stocks : {{}}, max_equity_investment : MaxEquityChoices,
               min_equity_investment : MinEquityChoices]
  /\ path \in {"terminal", "loading"} => user.min_equity_investment = NoMinEquity
  /\ todo = {}
  /\ data_list = <<>>
  /\ data = EmptyFrame
  /\ tickers = {}
  /\ bounds = <<>>
  /\ weights_eq = NoWeights
  /\ weights_min = NoWeights
  /\ weights_sharpe = NoWeights
  /\ invoked = {}
  /\ solver_calls = 0
  /\ error = "none"
  /\ NoStats
  /\ solver = {}
  /\ args = NoCall
  /\ ret = NoCall
  /\ app = NoApp

Raise(stage) ==
  /\ pc' = "error"
  /\ error' = stage

\* perform_initialization (terminal.py) / process_portfolio (loading.py) / a
\* script up to the first lines of Portfolio.__init__: the ticker list is
\* stored, the terminal path refuses an empty list,
\* self.tickers = set(available_stocks)
StartConstruction ==
  /\ pc = "idle"
  /\ path \in {"terminal", "loading", "script"}
  /\ \E available_tickers \in SUBSET Universe :
       /\ user' = [user EXCEPT !.available_stocks = available_tickers]
       /\ IF path = "terminal" /\ available_tickers = {}
          THEN /\ Raise("no_tickers")
               /\ UNCHANGED <<tickers, todo>>
          ELSE /\ pc' = "download"
               /\ tickers' = available_tickers
               /\ todo' = available_tickers
               /\ UNCHANGED error
  /\ UNCHANGED <<path, data_list, data, bounds, weights_eq, weights_min,
                 weights_sharpe, invoked, solver_calls, stats, solver, call, app>>

\* one pass of "for ticker in self.tickers": the series is appended, a
\* KeyError skips the ticker, any other exception leaves _get_data
Download(t) ==
  /\ pc = "download"
  /\ t \in todo
  /\ \/ /\ \E rows \in SessionSeries(t) :
             data_list' = Append(data_list, [ticker |-> t, rows |-> rows])
        /\ todo' = todo \ {t}
        /\ UNCHANGED <<pc, error>>
     \/ /\ todo' = todo \ {t}
        /\ UNCHANGED <<pc, error, data_list>>
     \/ /\ Raise("download")
        /\ UNCHANGED <<todo, data_list>>
  /\ UNCHANGED <<path, user, data, tickers, bounds, weights_eq, weights_min,
                 weights_sharpe, invoked, solver_calls, stats, solver, call, app>>

\* the rest of _get_data: join, clean, self.tickers = list(data.columns).
\* pd.concat raises ValueError on an empty list, data.iloc[0] raises
\* IndexError on a frame without rows.
GetData ==
  /\ pc = "download"
  /\ todo = {}
  /\ IF data_list = <<>> \/ CleanRaises(Concat(data_list))
     THEN /\ Raise("get_data")
          /\ UNCHANGED <<data, tickers>>
     ELSE /\ data' = Clean(Concat(data_list))
          /\ tickers' = data'.columns
          /\ pc' = "statistics"
          /\ UNCHANGED error
  /\ data_list' = <<>>
  /\ UNCHANGED <<path, user, todo, bounds, weights_eq, weights_min,
                 weights_sharpe, invoked, solver_calls, stats, solver, call, app>>

\* Statistics with the user's minimum per equity as the lower bound
StatisticsWithFloor ==
  /\ pc = "statistics"
  /\ \/ /\ returns' = CalculateReturns(data)
        /\ mean_returns' = MeanReturns(returns')
        /\ cov_matrix' = CovMatrix(returns')
        /\ bounds' = [i \in 1..Len(tickers) |->
                        <<IF user.min_equity_investment = NoMinEquity THEN Zero
                          ELSE <<user.min_equity_investment, 100>>,
                          <<user.max_equity_investment, 100>>>>]
        /\ sp500' = DownloadBenchmark
        /\ sp500_returns' = CalculateReturns(sp500')
        /\ pc' = "equal_weight"
        /\ UNCHANGED error
     \/ /\ Raise("benchmark")
        /\ UNCHANGED <<bounds, stats>>
  /\ UNCHANGED <<path, user, todo, data_list, data, tickers, weights_eq,
                 weights_min, weights_sharpe, invoked, solver_calls, solver, call, app>>

\* Portfolio.__init__ from calculate_returns to the benchmark download: the
\* returns and their statistics, the bounds with one entry per surviving
\* ticker, the benchmark and its returns; yf.download('^GSPC') can raise, and
\* the half-built object is then discarded
Statistics ==
  /\ pc = "statistics"
  /\ \/ /\ returns' = CalculateReturns(data)
        /\ mean_returns' = MeanReturns(returns')
        /\ cov_matrix' = CovMatrix(returns')
        /\ bounds' = MakeBounds(Len(tickers), user.max_equity_investment)
        /\ sp500' = DownloadBenchmark
        /\ sp500_returns' = CalculateReturns(sp500')
        /\ pc' = "equal_weight"
        /\ UNCHANGED error
     \/ /\ Raise("benchmark")
        /\ UNCHANGED <<bounds, stats>>
  /\ UNCHANGED <<path, user, todo, data_list, data, tickers, weights_eq,
                 weights_min, weights_sharpe, invoked, solver_calls, solver, call, app>>

\* self.weights_eq = self.equal_weight_portfolio()
EqualWeight ==
  /\ pc = "equal_weight"
  /\ invoked' = invoked \cup {"equal_weight"}
  /\ weights_eq' = EqualWeightPortfolio(tickers)
  /\ pc' = "min_variance"
  /\ UNCHANGED <<path, user, todo, data_list, data, tickers, bounds,
                 weights_min, weights_sharpe, solver_calls, error, stats, solver, call, app>>

\* the objective of min_variance_portfolio: it closes over self.cov_matrix
PortfolioVolatility ==
  [name |-> "portfolio_volatility", closes_over |-> <<cov_matrix>>]
\* the objective of max_sharpe_ratio_portfolio: it closes over
\* self.mean_returns and self.cov_matrix (risk_free_rate is the default 0.01)
NegativeSharpeRatio ==
  [name |-> "negative_sharpe_ratio", closes_over |-> <<mean_returns, cov_matrix>>]

\* MinimizeCall with an initial guess that depends on the number of solver
\* calls made before
MinimizeCallSeeded(fun) ==
  [fun |-> fun,
   x0 |-> [i \in 1..Len(tickers) |-> <<1, Len(tickers) + solver_calls>>],
   bounds |-> bounds,
   constraints |-> <<Len(tickers), min_weight>>]

\* minimize(fun, initial_weights, method='SLSQP', bounds=self.bounds,
\* constraints=self.constraints): what the strategy hands to the solver
MinimizeCall(fun) ==
  [fun |-> fun,
   x0 |-> UniformWeights(Len(tickers)),
   bounds |-> bounds,
   constraints |-> <<Len(tickers), min_weight>>]

\* one run of the solver.  SLSQP is a deterministic procedure: a run with the
\* arguments of an earlier run returns the result of that run.
RunMinimize(c, result) ==
  /\ \A r \in solver : r.call = c => result = r.result
  /\ solver' = solver \cup {[call |-> c, result |-> result]}

\* self.weights_min = self.min_variance_portfolio(); with no asset the call
\* of minimize on an empty x0 either raises or returns the empty vector
MinVariance ==
  /\ pc = "min_variance"
  /\ invoked' = invoked \cup {"min_variance"}
  /\ solver_calls' = solver_calls + 1
  /\ \/ /\ \E result \in Minimize(Len(tickers), bounds) :
             /\ RunMinimize(MinimizeCall(PortfolioVolatility), result)
             /\ weights_min' = SolverPortfolio(tickers, result)
        /\ pc' = "max_sharpe"
        /\ UNCHANGED error
     \/ /\ Len(tickers) = 0
        /\ Raise("min_variance")
        /\ UNCHANGED <<weights_min, solver>>
  /\ UNCHANGED <<path, user, todo, data_list, data, tickers, bounds,
                 weights_eq, weights_sharpe, stats, call, app>>

\* self.weights_sharpe = self.max_sharpe_ratio_portfolio()
MaxSharpe ==
  /\ pc = "max_sharpe"
  /\ invoked' = invoked \cup {"max_sharpe"}
  /\ solver_calls' = solver_calls + 1
  /\ \/ /\ \E result \in Minimize(Len(tickers), bounds) :
             /\ RunMinimize(MinimizeCall(NegativeSharpeRatio), result)
             /\ weights_sharpe' = SolverPortfolio(tickers, result)
        /\ pc' = "ready"
        /\ UNCHANGED error
     \/ /\ Len(tickers) = 0
        /\ Raise("max_sharpe")
        /\ UNCHANGED <<weights_sharpe, solver>>
  /\ UNCHANGED <<path, user, todo, data_list, data, tickers, bounds,
                 weights_eq, weights_min, stats, call, app>>

\* optimize_portfolio(available_tickers, user) of main.py: its first
\* statement is Portfolio(available_tickers, user), which binds the ticker
\* list to the parameter "user" of __init__(self, user, min_weight, ...);
\* user.data['available_stocks'] then raises AttributeError.  The try block
\* of optimize_portfolio starts after that statement (and catches ValueError
\* only), so the exception leaves optimize_portfolio before a strategy is read.
OptimizePortfolio ==
  /\ pc = "idle"
  /\ path = "cli"
  /\ args' = [method |-> "optimize_portfolio"]
  /\ ret' = [raised |-> "AttributeError"]
  /\ Raise("optimize_portfolio")
  /\ UNCHANGED session

Next ==
  \/ StartConstruction
  \/ OptimizePortfolio
  \/ \E t \in Universe : Download(t)
  \/ GetData
  \/ Statistics
  \/ EqualWeight
  \/ MinVariance
  \/ MaxSharpe

Spec == Init /\ [][Next]_vars

\* ------------------------------------------------- the cleaning on its own
\* the lists the download loop can leave behind: per requested ticker one
\* series of SeriesSet, or nothing when its download raised KeyError
DataLists ==
  {<<>>} \cup
  UNION {{<<[ticker |-> t, rows |-> r]>> : r \in SeriesSet(t)} : t \in Universe} \cup
  UNION {{<<[ticker |-> t, rows |-> r], [ticker |-> u, rows |-> q]>> :
            r \in SeriesSet(t), q \in SeriesSet(u)} :
           <<t, u>> \in {p \in Universe \X Universe : p[1] # p[2]}}

\* _get_data at the end of its download loop, for every list of series
InitClean ==
  /\ pc = "download"
  /\ path = "loading"
  /\ user = [available_stocks |-> Universe, max_equity_investment |-> DefaultMaxEquity,
             min_equity_investment |-> NoMinEquity]
  /\ todo = {}
  /\ data_list \in DataLists
  /\ data = EmptyFrame
  /\ tickers = Universe
  /\ bounds = <<>>
  /\ weights_eq = NoWeights
  /\ weights_min = NoWeights
  /\ weights_sharpe = NoWeights
  /\ invoked = {}
  /\ solver_calls = 0
  /\ error = "none"
  /\ NoStats
  /\ solver = {}
  /\ args = NoCall
  /\ ret = NoCall
  /\ app = NoApp

NextClean == GetData

SpecClean == InitClean /\ [][NextClean]_vars

\* ------------------------------------------------ the analytics on their own
\* no session is under construction
NoSession ==
  /\ path = "loading"
  /\ user = [available_stocks |-> {}, max_equity_investment |-> DefaultMaxEquity,
             min_equity_investment |-> NoMinEquity]
  /\ todo = {}
  /\ data_list = <<>>
  /\ data = EmptyFrame
  /\ bounds = <<>>
  /\ weights_eq = NoWeights
  /\ weights_min = NoWeights
  /\ weights_sharpe = NoWeights
  /\ invoked = {}
  /\ solver_calls = 0
  /\ error = "none"
  /\ NoStats
  /\ solver = {}

\* an analytics method is about to align the weighted portfolio returns
\* (self.returns weighted by the mapping) with self.sp500_returns; both
\* series come out of pct_change().dropna() and have no missing value
InitStats ==
  /\ pc = "analytics"
  /\ NoSession
  /\ tickers = <<>>
  /\ args \in [method : {"none"}, portfolio_returns : ReturnSeries,
               benchmark_returns : ReturnSeries]
  /\ ret = NoCall
  /\ app = NoApp

\* the method returns r to its caller, or its exception reaches the caller
Return(method, r) ==
  /\ pc = "analytics"
  /\ args' = [args EXCEPT !.method = method]
  /\ ret' = r
  /\ IF r.raised # "none" THEN Raise(method) ELSE pc' = "returned" /\ UNCHANGED error
  /\ UNCHANGED session

GetSummaryStatisticsTable ==
  Return("get_summary_statistics_table",
         SummaryStatisticsTable(args.portfolio_returns, args.benchmark_returns))

PlotCumulativeReturns ==
  Return("plot_cumulative_returns",
         CumulativeReturns(args.portfolio_returns, args.benchmark_returns))

PlotRollingVolatility ==
  Return("plot_rolling_volatility",
         RollingVolatility(args.portfolio_returns, args.benchmark_returns))

NextStats ==
  \/ GetSummaryStatisticsTable
  \/ PlotCumulativeReturns
  \/ PlotRollingVolatility

SpecStats == InitStats /\ [][NextStats]_vars

\* ------------------------------------------------ the treemap on its own
\* the tickers of the portfolio whose treemap is drawn
TreemapTickers == <<"AAPL", "MSFT", "XOM">>
Sectors == {"Technology", "Energy"}
\* nothing, half the threshold, the threshold, a quarter, a half
TreemapWeights == {<<0, 20000>>, <<1, 20000>>, <<2, 20000>>, <<5000, 20000>>, <<10000, 20000>>}

\* static/ticker_data.csv: a sector for some of the tickers
TickerData == UNION {[have -> Sectors] : have \in SUBSET Range(TreemapTickers)}

\* create_weighted_sector_treemap is about to run on a weight mapping (over
\* the tickers, or with one ticker missing) and a reference table
InitTreemap ==
  /\ pc = "analytics"
  /\ NoSession
  /\ tickers = TreemapTickers
  /\ args \in [method : {"none"},
               weights : [Range(TreemapTickers) -> TreemapWeights]
                           \cup [Range(TreemapTickers) \ {"XOM"} -> TreemapWeights],
               ticker_data : TickerData]
  /\ ret = NoCall
  /\ app = NoApp

CreateWeightedSectorTreemap ==
  /\ Return("create_weighted_sector_treemap",
            WeightedSectorTreemap(tickers, args.weights, args.ticker_data))
  /\ UNCHANGED tickers

NextTreemap == CreateWeightedSectorTreemap

SpecTreemap == InitTreemap /\ [][NextTreemap]_vars

\* ------------------------------------------- the ticker list on its own
\* the reference table has at most MaxTableRows rows
MaxTableRows == 2
\* a row of the table: a sector or none, a risk below, above or at no value
TableRows ==
  [Ticker : Universe, sector : {"Technology", "nan"}, overallRisk : {NaN, 2, 6}]
\* static/ticker_data.csv: absent, without the marketCap column, or complete
CsvFiles ==
  UNION {{[found |-> FALSE, columns |-> {}, rows |-> <<>>],
          [found |-> TRUE, columns |-> RequiredColumns \ {"marketCap"}, rows |-> rows],
          [found |-> TRUE, columns |-> RequiredColumns, rows |-> rows]} :
           rows \in UNION {[1..n -> TableRows] : n \in 0..MaxTableRows}}
\* the preferences the input screens can store (risk_tolerance is the default
\* 3 or an entry in 1..10)
UserData ==
  [preferred_stocks : SUBSET Universe,
   sectors_to_avoid : SUBSET {"Technology", "Unknown"},
   risk_tolerance   : {3, 5}]

\* build_available_tickers is about to run on stored preferences and a file
InitList ==
  /\ pc = "analytics"
  /\ NoSession
  /\ tickers = <<>>
  /\ args \in [method : {"none"}, user_data : UserData, csv : CsvFiles]
  /\ ret = NoCall
  /\ app = NoApp

CallBuildAvailableTickers ==
  Return("build_available_tickers", BuildAvailableTickers(args.user_data, args.csv))

NextList == CallBuildAvailableTickers

SpecList == InitList /\ [][NextList]_vars

\* --------------------------------------- the preferred-stocks prompt on its own
\* a typed line has at most MaxPieces pieces
MaxPieces == 2
\* the pieces the user types: blanks, a listed ticker in lower case with
\* blanks around it, another listed ticker, a ticker the table does not list
Pieces ==
  {[sym |-> "", lower |-> FALSE, padded |-> TRUE],
   [sym |-> "AAPL", lower |-> TRUE, padded |-> TRUE],
   [sym |-> "MSFT", lower |-> FALSE, padded |-> FALSE],
   [sym |-> "TSLA", lower |-> FALSE, padded |-> FALSE]}
TypedLines == UNION {[1..n -> Pieces] : n \in 1..MaxPieces}

\* get_preferred_stocks(set(df['Ticker'].values)) is entered (gather_information)
InitPrompt ==
  /\ pc = "prompt"
  /\ NoSession
  /\ tickers = <<>>
  /\ args = [method |-> "get_preferred_stocks", available_tickers |-> Universe,
             entries |-> <<>>]
  /\ ret = NoCall
  /\ app = NoApp

\* one pass of "for attempt in range(max_attempts)": the line is read and
\* judged; the function returns its tickers, goes on to the next pass, or,
\* after the last pass, returns []
Attempt(stocks) ==
  /\ pc = "prompt"
  /\ Len(args.entries) < max_attempts
  /\ args' = [args EXCEPT !.entries = Append(@, stocks)]
  /\ LET outcome == AttemptOutcome(stocks, args.available_tickers)
     IN  IF ~outcome.continue
         THEN /\ ret' = [raised |-> "none", tickers |-> outcome.tickers]
              /\ pc' = "returned"
         ELSE IF Len(args.entries) + 1 = max_attempts
         THEN /\ ret' = [raised |-> "none", tickers |-> {}]
              /\ pc' = "returned"
         ELSE UNCHANGED <<pc, ret>>
  /\ UNCHANGED <<error, session>>

NextPrompt == \E stocks \in TypedLines : Attempt(stocks)

SpecPrompt == InitPrompt /\ [][NextPrompt]_vars

\* ------------------------------------------------------ the terminal wizard
\* at most MaxDashboards presses of "Open Dashboard" are followed
MaxDashboards == 2

\* static/ticker_data.csv of the wizard's sessions: one listed ticker, of the
\* technology sector, with a risk above the default tolerance
WizardCsv ==
  [found |-> TRUE, columns |-> RequiredColumns,
   rows |-> <<[Ticker |-> "AAPL", sector |-> "Technology", overallRisk |-> 6]>>]

\* the lines typed into the stocks input: at most one piece
WizardLines == {line \in TypedLines : Len(line) <= 1}

\* everything of the session but user.data and the wizard
portfolio_state == <<pc, error, path, todo, data_list, data, tickers, bounds,
                     weights_eq, weights_min, weights_sharpe, invoked,
                     solver_calls, stats, solver, call>>

\* PortfolioApp after on_mount (the installed screens are single instances,
\* mounted when first pushed): User() with its defaults, the stocks screen
\* on the default screen, no portfolio
InitWizard ==
  /\ pc = "idle"
  /\ path = "terminal"
  /\ user = [preferred_stocks |-> {}, available_stocks |-> {}, sectors_to_avoid |-> {},
             risk_tolerance |-> DefaultRiskTolerance,
             max_equity_investment |-> DefaultMaxEquity,
             min_equity_investment |-> NoMinEquity]
  /\ todo = {}
  /\ data_list = <<>>
  /\ data = EmptyFrame
  /\ tickers = {}
  /\ bounds = <<>>
  /\ weights_eq = NoWeights
  /\ weights_min = NoWeights
  /\ weights_sharpe = NoWeights
  /\ invoked = {}
  /\ solver_calls = 0
  /\ error = "none"
  /\ NoStats
  /\ solver = {}
  /\ args = NoCall
  /\ ret = NoCall
  /\ app = [screen_stack      |-> <<"_default", "stocks">>,
            risk_input        |-> "",
            max_input         |-> "",
            task              |-> "none",
            status            |-> "Please wait while we prepare your portfolio.",
            exited            |-> "no",
            processes         |-> <<>>,
            dashboard_process |-> 0]

\* the screen the events go to
Top == app.screen_stack[Len(app.screen_stack)]
\* the app runs and the screen named top is the active one
OnScreen(top) == app.exited = "no" /\ Top = top

\* App.push_screen
PushScreen(a, screen) == [a EXCEPT !.screen_stack = Append(@, screen)]
\* App.pop_screen; a popped ConstraintsScreen instance is discarded with its
\* input widget (the next one is a new ConstraintsScreen())
PopScreen(a) ==
  [a EXCEPT !.screen_stack = SubSeq(@, 1, Len(@) - 1),
            !.max_input = IF a.screen_stack[Len(a.screen_stack)] = "constraints"
                          THEN "" ELSE @]

\* StocksScreen.on_input_changed
StocksInputChanged(line) ==
  /\ OnScreen("stocks")
  /\ user' = [user EXCEPT !.preferred_stocks = ValidStocks(line, WizardCsv.rows)]
  /\ UNCHANGED <<portfolio_state, app>>

\* StocksScreen.on_button_pressed
StocksButton(button) ==
  /\ OnScreen("stocks")
  /\ app' = IF button = "continue" THEN PushScreen(app, "sectors") ELSE PopScreen(app)
  /\ UNCHANGED <<portfolio_state, user>>

\* SectorsScreen.on_select_changed: the chosen sector is toggled
SectorsSelectChanged(selected_sector) ==
  /\ OnScreen("sectors")
  /\ user' = [user EXCEPT !.sectors_to_avoid =
                 IF selected_sector \in @ THEN @ \ {selected_sector}
                 ELSE @ \cup {selected_sector}]
  /\ UNCHANGED <<portfolio_state, app>>

\* SectorsScreen.on_button_pressed
SectorsButton(button) ==
  /\ OnScreen("sectors")
  /\ app' = IF button = "continue" THEN PushScreen(app, "risk") ELSE PopScreen(app)
  /\ UNCHANGED <<portfolio_state, user>>

\* RiskScreen.on_input_changed
RiskInputChanged(text) ==
  /\ OnScreen("risk")
  /\ app' = [app EXCEPT !.risk_input = text]
  /\ user' = IF RiskAccepted(text)
             THEN [user EXCEPT !.risk_tolerance = IntOf(text).value]
             ELSE user
  /\ UNCHANGED portfolio_state

\* RiskScreen.on_button_pressed: "continue" needs a truthy risk_tolerance
RiskButton(button) ==
  /\ OnScreen("risk")
  /\ button = "continue" => user.risk_tolerance # 0
  /\ app' = IF button = "continue" THEN PushScreen(app, "constraints") ELSE PopScreen(app)
  /\ UNCHANGED <<portfolio_state, user>>

\* validate_constraints on the text of the "max" widget
ValidateConstraints(text) ==
  user' = IF ConstraintsValid(text)
          THEN [user EXCEPT !.max_equity_investment = FloatOf(text).value]
          ELSE user

\* ConstraintsScreen.on_input_changed
ConstraintsInputChanged(text) ==
  /\ OnScreen("constraints")
  /\ app' = [app EXCEPT !.max_input = text]
  /\ ValidateConstraints(text)
  /\ UNCHANGED portfolio_state

\* ConstraintsScreen.on_button_pressed: "continue" validates the widget again
\* and, when valid, replaces the screen by the installed "data_pulling"
\* screen; its on_mount (run once, when the screen is first mounted) creates
\* the task initialize_and_redirect
ConstraintsButton(button) ==
  /\ OnScreen("constraints")
  /\ button = "continue" => ConstraintsValid(app.max_input)
  /\ IF button = "continue"
     THEN /\ ValidateConstraints(app.max_input)
          /\ app' = [PushScreen(PopScreen(app), "data_pulling") EXCEPT
                       !.task = IF @ = "none" THEN "pending" ELSE @]
     ELSE /\ app' = PopScreen(app)
          /\ UNCHANGED user
  /\ UNCHANGED portfolio_state

\* the "escape" binding: PortfolioApp.action_pop_screen
ActionPopScreen ==
  /\ app.exited = "no"
  /\ Len(app.screen_stack) > 1
  /\ app' = PopScreen(app)
  /\ UNCHANGED <<portfolio_state, user>>

\* the "q" binding (App.action_quit)
ActionQuit ==
  /\ app.exited = "no"
  /\ app' = [app EXCEPT !.exited = "quit"]
  /\ UNCHANGED <<portfolio_state, user>>

\* DataPullingScreen.on_button_pressed ("exit")
DataPullingExit ==
  /\ OnScreen("data_pulling")
  /\ app' = [app EXCEPT !.exited = "exit_data_pulling"]
  /\ UNCHANGED <<portfolio_state, user>>

\* the thread of asyncio.to_thread starts perform_initialization: the ticker
\* list is built from the stored preferences and stored, an empty list raises
\* ValueError, otherwise Portfolio(self.app.user) begins (Download, GetData,
\* Statistics, EqualWeight, MinVariance and MaxSharpe are its steps, and
\* self.app.portfolio is assigned when the last one returns)
PerformInitialization ==
  /\ app.task = "pending"
  /\ app.exited = "no"
  /\ pc = "idle"
  /\ app' = [app EXCEPT !.task = "running"]
  /\ LET available_tickers == Range(BuildAvailableTickers(user, WizardCsv).tickers)
     IN  /\ user' = [user EXCEPT !.available_stocks = available_tickers]
         /\ IF available_tickers = {}
            THEN /\ Raise("no_tickers")
                 /\ UNCHANGED <<tickers, todo>>
            ELSE /\ pc' = "download"
                 /\ tickers' = available_tickers
                 /\ todo' = available_tickers
                 /\ UNCHANGED error
  /\ UNCHANGED <<path, data_list, data, bounds, weights_eq, weights_min,
                 weights_sharpe, invoked, solver_calls, stats, solver, call>>

\* Redirect pushing the optimization screen without awaiting the thread
RedirectNoAwait ==
  /\ app.task = "running"
  /\ app.exited = "no"
  /\ app' = [PushScreen(app, "optimization") EXCEPT !.task = "done"]
  /\ UNCHANGED <<portfolio_state, user>>

\* initialize_and_redirect after "await asyncio.to_thread(...)" returned:
\* self.app.push_screen("optimization"), on whatever screen is active
Redirect ==
  /\ app.task = "running"
  /\ app.exited = "no"
  /\ pc = "ready"
  /\ app' = [PushScreen(app, "optimization") EXCEPT !.task = "done"]
  /\ UNCHANGED <<portfolio_state, user>>

\* initialize_and_redirect after the await raised: the "except Exception"
\* writes the error into the status widget of the data-pulling screen
ShowError ==
  /\ app.task = "running"
  /\ app.exited = "no"
  /\ pc = "error"
  /\ app' = [app EXCEPT !.task = "done", !.status = "Error"]
  /\ UNCHANGED <<portfolio_state, user>>

\* PortfolioOptimizationScreen.on_button_pressed ("dashboard"): a new process
\* is started and stored in self.dashboard_process
OptimizationDashboard ==
  /\ OnScreen("optimization")
  /\ Len(app.processes) < MaxDashboards
  /\ app' = [app EXCEPT !.processes = Append(@, "alive"),
                        !.dashboard_process = Len(app.processes) + 1]
  /\ UNCHANGED <<portfolio_state, user>>

\* a dashboard process ends by itself: run_dashboard returns after its server
\* failed (port 8509 is taken, or any exception, which it logs)
DashboardStops(i) ==
  /\ i \in DOMAIN app.processes
  /\ app.processes[i] = "alive"
  /\ app' = [app EXCEPT !.processes[i] = "stopped"]
  /\ UNCHANGED <<portfolio_state, user>>

\* PortfolioOptimizationScreen.on_button_pressed ("exit"): the stored process
\* is terminated and joined when it is alive, then the app exits
OptimizationExit ==
  /\ OnScreen("optimization")
  /\ app' = [app EXCEPT
               !.processes = IF app.dashboard_process # 0
                                /\ app.processes[app.dashboard_process] = "alive"
                             THEN [@ EXCEPT ![app.dashboard_process] = "terminated"]
                             ELSE @,
               !.exited = "exit_optimization"]
  /\ UNCHANGED <<portfolio_state, user>>

NextWizard ==
  \/ \E line \in WizardLines : StocksInputChanged(line)
  \/ \E button \in {"back", "continue"} : StocksButton(button)
  \/ \E sector \in {"Technology"} : SectorsSelectChanged(sector)
  \/ \E button \in {"back", "continue"} : SectorsButton(button)
  \/ \E text \in RiskTexts : RiskInputChanged(text)
  \/ \E button \in {"back", "continue"} : RiskButton(button)
  \/ \E text \in MaxTexts : ConstraintsInputChanged(text)
  \/ \E button \in {"back", "continue"} : ConstraintsButton(button)
  \/ ActionPopScreen
  \/ ActionQuit
  \/ DataPullingExit
  \/ PerformInitialization
  \/ \E t \in Universe : Download(t)
  \/ GetData
  \/ Statistics
  \/ EqualWeight
  \/ MinVariance
  \/ MaxSharpe
  \/ Redirect
  \/ ShowError
  \/ OptimizationDashboard
  \/ \E i \in 1..MaxDashboards : DashboardStops(i)
  \/ OptimizationExit

SpecWizard == InitWizard /\ [][NextWizard]_vars

\* ------------------------------------------- the constructed portfolio in use
\* the download lists the portfolios in use were built from: two complete
\* series, and a single series that starts a date late
UseLists ==
  {<<[ticker |-> "AAPL", rows |-> SeriesOf("AAPL", 1, 1, 0, "nan")],
     [ticker |-> "MSFT", rows |-> SeriesOf("MSFT", 1, 1, 0, "nan")]>>,
   <<[ticker |-> "MSFT", rows |-> SeriesOf("MSFT", 2, 2, 0, "nan")]>>}

\* the state Portfolio.__init__ ends in: every field computed from the
\* downloaded series, the three strategies evaluated once
InitUse ==
  /\ pc = "ready"
  /\ path = "loading"
  /\ todo = {}
  /\ data_list = <<>>
  /\ \E dl \in UseLists :
       /\ data = Clean(Concat(dl))
       /\ \E m \in MaxEquityChoices :
            user = [available_stocks |-> {dl[i].ticker : i \in DOMAIN dl},
                    max_equity_investment |-> m,
                    min_equity_investment |-> NoMinEquity]
  /\ tickers = data.columns
  /\ returns = CalculateReturns(data)
  /\ mean_returns = MeanReturns(returns)
  /\ cov_matrix = CovMatrix(returns)
  /\ bounds = MakeBounds(Len(tickers), user.max_equity_investment)
  /\ sp500 = DownloadBenchmark
  /\ sp500_returns = CalculateReturns(sp500)
  /\ weights_eq = EqualWeightPortfolio(tickers)
  /\ invoked = {"equal_weight", "min_variance", "max_sharpe"}
  /\ solver_calls = 2
  /\ error = "none"
  /\ \E rmin, rsharpe \in Minimize(Len(tickers), bounds) :
       /\ weights_min = SolverPortfolio(tickers, rmin)
       /\ weights_sharpe = SolverPortfolio(tickers, rsharpe)
       /\ solver = {[call |-> MinimizeCall(PortfolioVolatility), result |-> rmin],
                    [call |-> MinimizeCall(NegativeSharpeRatio), result |-> rsharpe]}
  /\ args = NoCall
  /\ ret = NoCall
  /\ app = NoApp

\* what no method called on the constructed portfolio assigns
constructed == <<path, user, todo, data_list, data, tickers, bounds, weights_eq,
                 weights_min, weights_sharpe, invoked, app>>

\* a caller evaluates equal_weight_portfolio again (dashboard2.py)
EvaluateEqualWeight ==
  /\ pc = "ready"
  /\ args' = [method |-> "equal_weight"]
  /\ ret' = [raised |-> "none", weights |-> EqualWeightPortfolio(tickers)]
  /\ UNCHANGED <<pc, error, constructed, stats, solver, solver_calls>>

\* a caller evaluates min_variance_portfolio again
EvaluateMinVariance ==
  /\ pc = "ready"
  /\ solver_calls < MaxSolverCalls
  /\ solver_calls' = solver_calls + 1
  /\ args' = [method |-> "min_variance"]
  /\ \E result \in Minimize(Len(tickers), bounds) :
       /\ RunMinimize(MinimizeCall(PortfolioVolatility), result)
       /\ ret' = [raised |-> "none", weights |-> SolverPortfolio(tickers, result)]
  /\ UNCHANGED <<pc, error, constructed, stats>>

\* a caller evaluates max_sharpe_ratio_portfolio again
EvaluateMaxSharpe ==
  /\ pc = "ready"
  /\ solver_calls < MaxSolverCalls
  /\ solver_calls' = solver_calls + 1
  /\ args' = [method |-> "max_sharpe"]
  /\ \E result \in Minimize(Len(tickers), bounds) :
       /\ RunMinimize(MinimizeCall(NegativeSharpeRatio), result)
       /\ ret' = [raised |-> "none", weights |-> SolverPortfolio(tickers, result)]
  /\ UNCHANGED <<pc, error, constructed, stats>>

\* self.returns.dot(pd.Series(weights)) / np.sum(self.returns * pd.Series(weights),
\* axis=1): per date the weighted sum of the returns (in basis points)
WeightedReturns(rf, w) ==
  [d \in Range(rf.index) |->
     LET r == CHOOSE i \in DOMAIN rf.index : rf.index[i] = d
     IN  SumOver([t \in ColSet(rf) |-> <<w[t][1] * Bp(rf.values[t][r]), w[t][2]>>],
                 ColSet(rf))]

\* self.sp500_returns as a series (in basis points)
BenchmarkReturns(sf) ==
  [d \in Range(sf.index) |->
     LET r == CHOOSE i \in DOMAIN sf.index : sf.index[i] = d
     IN  <<Bp(sf.values["^GSPC"][r]), 1>>]

\* PlotCumulativeAssign storing the benchmark returns in self.returns
PlotCumulativeAssignReturns ==
  /\ returns' = CalculateReturns(sp500)
  /\ UNCHANGED <<sp500_returns, mean_returns, cov_matrix, sp500>>

\* "sp500_returns = self.sp500.pct_change().dropna();
\*  self.sp500_returns = sp500_returns": the one assignment to a field that
\* the analytics make
PlotCumulativeAssign ==
  /\ sp500_returns' = CalculateReturns(sp500)
  /\ UNCHANGED <<returns, mean_returns, cov_matrix, sp500>>

AnalyticsMethods ==
  {"get_summary_statistics_table", "plot_cumulative_returns", "plot_rolling_volatility"}

\* the dashboard calls an analytics method with the mapping of the selected
\* strategy (pages/dashboard.py); the method weights the returns and aligns
\* them with the benchmark.  What it computes from the aligned frame is
\* SummaryStatisticsTable, CumulativeReturns and RollingVolatility above.
CallAnalytics(method, w) ==
  /\ pc = "ready"
  /\ args' = [method |-> method]
  /\ IF method = "plot_cumulative_returns"
     THEN /\ PlotCumulativeAssign
          /\ ret' = [raised |-> "none",
                     aligned |-> AlignInner(WeightedReturns(returns, w),
                                            BenchmarkReturns(sp500_returns'))]
     ELSE /\ UNCHANGED stats
          /\ ret' = [raised |-> "none",
                     aligned |-> AlignDropna(WeightedReturns(returns, w),
                                             BenchmarkReturns(sp500_returns))]
  /\ UNCHANGED <<pc, error, constructed, solver, solver_calls>>

NextUse ==
  \/ EvaluateEqualWeight
  \/ EvaluateMinVariance
  \/ EvaluateMaxSharpe
  \/ \E method \in AnalyticsMethods :
       \E w \in {weights_eq, weights_min, weights_sharpe} : CallAnalytics(method, w)

SpecUse == InitUse /\ [][NextUse]_vars

\* ------------------------------------------------------- stages of a session
\* _get_data has returned (self.data and self.tickers are the cleaned ones)
Cleaned ==
  \/ pc \in {"statistics", "equal_weight", "min_variance", "max_sharpe", "ready"}
  \/ pc = "error" /\ error \in {"benchmark", "min_variance", "max_sharpe"}
\* equal_weight_portfolio has returned
ReturnedEq ==
  \/ pc \in {"min_variance", "max_sharpe", "ready"}
  \/ pc = "error" /\ error \in {"min_variance", "max_sharpe"}
\* min_variance_portfolio has returned
ReturnedMin ==
  \/ pc \in {"max_sharpe", "ready"}
  \/ pc = "error" /\ error = "max_sharpe"
\* max_sharpe_ratio_portfolio has returned
ReturnedSharpe == pc = "ready"

\* the weights of a mapping in column order
WeightSeq(w) == [i \in 1..Len(tickers) |-> w[tickers[i]]]
\* |sum - 1| <= 1e-6
SumsToOne(w) ==
  LET s == SumSeq(WeightSeq(w))
      d == IF s[1] >= s[2] THEN s[1] - s[2] ELSE s[2] - s[1]
  IN  d * 1000000 <= s[2]
\* 0 <= weight <= max_equity_investment / 100 for every asset
WithinBounds(w) ==
  \A t \in DOMAIN w : /\ RatLeq(Zero, w[t])
                      /\ RatLeq(w[t], <<user.max_equity_investment, 100>>)
\* no weight vector satisfies the box bounds and the two constraints
Infeasible ==
  \/ Len(tickers) * user.max_equity_investment < 100
  \/ ~RatLeq(RatMul(<<Len(tickers), 1>>, min_weight), One)
NoDuplicates(s) == \A i, j \in DOMAIN s : s[i] = s[j] => i = j

\* ------------------------------------------------------------------- claims

\* C1: every strategy's returned weight mapping sums to 1.0 within 1e-6 for
\* every non-empty cleaned matrix, also when the solver did not converge.
C1_WeightsSumToOne ==
  (Cleaned /\ Len(tickers) >= 1) =>
     /\ ReturnedEq => SumsToOne(weights_eq)
     /\ ReturnedMin => SumsToOne(weights_min)
     /\ ReturnedSharpe => SumsToOne(weights_sharpe)

\* C2: for every strategy, equal weight included, every returned weight lies
\* in [0, max_equity_investment / 100].
C2_WeightsWithinBounds ==
  (Cleaned /\ Len(tickers) >= 1) =>
     /\ ReturnedEq => WithinBounds(weights_eq)
     /\ ReturnedMin => WithinBounds(weights_min)
     /\ ReturnedSharpe => WithinBounds(weights_sharpe)

\* C3: the keys of every returned weight mapping are exactly the columns that
\* survived cleaning, these are requested tickers, and the bounds and the
\* initial guess have one entry per surviving ticker.
C3_KeysAreSurvivors ==
  Cleaned =>
     /\ NoDuplicates(tickers)
     /\ Range(tickers) = ColSet(data)
     /\ DOMAIN data.values = ColSet(data)
     /\ Range(tickers) \subseteq user.available_stocks
     /\ pc \notin {"statistics"} /\ error # "benchmark" =>
          /\ Len(bounds) = Len(tickers)
          /\ Len(UniformWeights(Len(tickers))) = Len(bounds)
     /\ ReturnedEq => DOMAIN weights_eq = Range(tickers)
     /\ ReturnedMin => DOMAIN weights_min = Range(tickers)
     /\ ReturnedSharpe => DOMAIN weights_sharpe = Range(tickers)

\* C3 witness: a requested ticker was dropped by the cleaning and all three
\* strategies returned a mapping over the one that survived.
C3_Witness ==
  /\ pc = "ready"
  /\ Len(tickers) = 1
  /\ Cardinality(user.available_stocks) = 2
  /\ DOMAIN weights_min = Range(tickers)

\* C4: when the bounds cannot hold a vector summing to 1 (or the floor exceeds
\* 1) the infeasibility is surfaced before the solver runs: no solver call is
\* made and neither solver strategy returns a mapping.
C4_InfeasibleFailsFast ==
  (Cleaned /\ Len(tickers) >= 1 /\ Infeasible) =>
     /\ solver_calls = 0
     /\ ~ReturnedMin
     /\ ~ReturnedSharpe

\* C5: equal_weight_portfolio returns exactly 1/n for each of the n surviving
\* tickers, whatever the prices, and makes no solver call.
C5_EqualWeightClosedForm ==
  /\ ReturnedEq => weights_eq = [t \in Range(tickers) |-> <<1, Len(tickers)>>]
  /\ pc = "min_variance" => solver_calls = 0 /\ invoked = {"equal_weight"}

\* C5 witness: equal weights over two surviving tickers, one of them with
\* forward-filled prices.
C5_Witness ==
  /\ pc = "min_variance"
  /\ Len(tickers) = 2
  /\ weights_eq[tickers[1]] = <<1, 2>>
  /\ \E t \in ColSet(data) : \E r \in 1..(NRows(data) - 1) :
        ~IsNa(data.values[t][r]) /\ data.values[t][r] = data.values[t][r + 1]

\* C6: a non-empty matrix returned by _get_data has no missing cell, every
\* column has a valid observation and all columns share the date index.
C6_NoMissingCell ==
  (Cleaned /\ Len(tickers) >= 1) =>
     \A t \in ColSet(data) :
        /\ Len(data.values[t]) = NRows(data)
        /\ \E r \in 1..NRows(data) : ~IsNa(data.values[t][r])
        /\ \A r \in 1..NRows(data) : ~IsNa(data.values[t][r])

\* a run of at least StreakThreshold missing cells with a valid price before
\* and after it
HasInnerGap(c) ==
  \E a, b \in DOMAIN c :
     /\ b - a - 1 >= StreakThreshold
     /\ ~IsNa(c[a]) /\ ~IsNa(c[b])
     /\ \A r \in (a + 1)..(b - 1) : IsNa(c[r])

\* C7: a ticker whose joined series has a gap of 4 or more consecutive missing
\* dates between two valid prices is dropped by _get_data.
C7_InnerGapDropsTicker ==
  [][(pc = "download" /\ pc' = "statistics") =>
       \A t \in ColSet(Concat(data_list)) :
          HasInnerGap(Concat(data_list).values[t]) => t \notin Range(tickers')]_vars

\* C8: cleaning the cleaned matrix again returns the same matrix and the same
\* ticker list.
C8_CleaningIdempotent ==
  Cleaned =>
     /\ ~CleanRaises(data)
     /\ Clean(data) = data
     /\ Clean(data).columns = tickers

\* C8 witness: the first cleaning forward-filled a price, dropped a requested
\* ticker or left a leading missing cell, so the second pass has work to skip.
C8_Witness ==
  /\ pc = "statistics"
  /\ Len(tickers) = 2
  /\ NRows(data) > 2
  /\ \E t \in ColSet(data) : IsNa(data.values[t][1])
  /\ \E t \in ColSet(data) : \E r \in 2..(NRows(data) - 1) :
        ~IsNa(data.values[t][r]) /\ data.values[t][r] = data.values[t][r + 1]

\* C9: when no column survives the cleaning, the session ends in an error
\* before any strategy is entered, on the terminal and on the loading path.
C9_ZeroColumnsStopBeforeOptimizer ==
  (Cleaned /\ Len(tickers) = 0) => invoked = {}

\* C10: whatever error the provider raises for a ticker, and when it returns
\* an empty series, the download loop of _get_data goes on to the next ticker.
C10_ProviderFailureTolerated ==
  [][(pc = "download" /\ todo # {}) => pc' = "download"]_vars


\* C11: the return matrix of calculate_returns has exactly one row fewer than
\* the cleaned price matrix, for every matrix _get_data can produce.
C11_ReturnsOneRowShorter ==
  Cleaned => NRows(CalculateReturns(data)) = NRows(data) - 1


\* the aligned frame holds exactly the dates both series have, each with the
\* two returns of that date
AlignedOnCommonDates(a, p, b) ==
  /\ a.index = SortedSeq(DOMAIN p \cap DOMAIN b)
  /\ Len(a.portfolio) = Len(a.index) /\ Len(a.benchmark) = Len(a.index)
  /\ \A r \in DOMAIN a.index :
        a.portfolio[r] = p[a.index[r]] /\ a.benchmark[r] = b[a.index[r]]

\* C12: in get_summary_statistics_table, plot_cumulative_returns and
\* plot_rolling_volatility the statistics are computed on exactly the dates
\* that both the portfolio returns and the benchmark returns have, with the
\* returns of those dates; no value is made up for a date of only one series.
C12_AlignedOnIntersection ==
  pc = "returned" =>
     AlignedOnCommonDates(ret.aligned, args.portfolio_returns, args.benchmark_returns)

\* C12 witness: a table was computed from two series that each have a date
\* the other lacks, and share a date.
C12_Witness ==
  /\ pc = "returned"
  /\ args.method = "get_summary_statistics_table"
  /\ DOMAIN args.portfolio_returns \ DOMAIN args.benchmark_returns # {}
  /\ DOMAIN args.benchmark_returns \ DOMAIN args.portfolio_returns # {}
  /\ Len(ret.aligned.index) >= 1

\* C13: when the portfolio return series is the benchmark series itself, with
\* at least 2 observations and a non-zero variance, the beta of
\* get_summary_statistics_table is 1.
C13_BetaOfBenchmarkIsOne ==
  (/\ pc = "returned"
   /\ args.method = "get_summary_statistics_table"
   /\ args.portfolio_returns = args.benchmark_returns
   /\ Len(ret.aligned.index) >= 2
   /\ MarketVariance(ret.aligned.benchmark)[1] # 0)
  => (~IsNaR(ret.beta) /\ RatEq(ret.beta, One))

\* C14: in get_summary_statistics_table the Sharpe ratio is 0 when the
\* annualized volatility is 0, the Sortino ratio is 0 when the downside
\* deviation is 0, and neither is ever a division error or a non-number, for
\* every aligned series.
C14_RatiosAreNumbers ==
  (pc = "returned" /\ args.method = "get_summary_statistics_table") =>
     \A m \in {ret.portfolio, ret.benchmark} :
        /\ SignOf(m.vol_sq) = "zero" => m.sharpe = "zero"
        /\ SignOf(m.down_sq) = "zero" => m.sortino = "zero"
        /\ m.sharpe \in {"neg", "zero", "pos"}
        /\ m.sortino \in {"neg", "zero", "pos"}


\* the assets of the weight vector that reach the display threshold
SurvivingAssets(weights) ==
  {t \in DOMAIN weights : RatLeq(MinDisplayWeight, weights[t])}

\* C15: for a weight vector with at least one asset at or above 0.0001, in the
\* hierarchy of create_weighted_sector_treemap the asset percentages of every
\* sector sum to 100 and the sector weights sum to the total weight of the
\* assets at or above 0.0001.
C15_SectorSumsMatch ==
  (/\ pc = "returned"
   /\ args.method = "create_weighted_sector_treemap"
   /\ SurvivingAssets(args.weights) # {})
  => /\ \A sec \in DOMAIN ret.sectors :
          RatEq(SumOver([t \in DOMAIN ret.stocks |-> ret.stocks[t].Weight_n],
                        {t \in DOMAIN ret.stocks : ret.stocks[t].Parent = sec}),
                <<100, 1>>)
     /\ RatEq(SumOver(ret.sectors, DOMAIN ret.sectors),
              SumOver(args.weights, SurvivingAssets(args.weights)))

\* C16: create_weighted_sector_treemap raises when a ticker of the weight
\* vector has no entry in the ticker reference table; it never returns a
\* hierarchy that leaves the ticker out.
C16_MissingTickerRaises ==
  (/\ pc \in {"returned", "error"}
   /\ args.method = "create_weighted_sector_treemap"
   /\ DOMAIN args.weights \ DOMAIN args.ticker_data # {})
  => ret.raised # "none"


\* C17: every strategy a caller can select (options 1-4 of optimize_portfolio)
\* completes and returns a weight mapping over the working tickers; selecting
\* a strategy never ends in an unhandled error.
C17_SelectedStrategyReturnsWeights ==
  (path = "cli" /\ pc # "idle") =>
     /\ ret.raised = "none"
     /\ DOMAIN ret.weights = Range(tickers)


\* what a strategy stored for the run r of the solver
ReturnedFor(r) ==
  IF r.call.fun.name = "portfolio_volatility" THEN weights_min ELSE weights_sharpe

\* the returned value carries an entry besides the weights of the tickers
HasMetadata(w) == \E k \in DOMAIN w : k \notin Range(tickers)

\* C18: when the solver stops without converging, min_variance_portfolio and
\* max_sharpe_ratio_portfolio return the iterate it stopped at instead of
\* raising, and the non-convergence is reported to the caller as metadata
\* together with the weights.
C18_NonConvergenceReported ==
  \A r \in solver : ~r.result.success =>
     /\ ReturnedFor(r) = Zip(tickers, r.result.x)
     /\ HasMetadata(ReturnedFor(r))


\* C19: after construction, any sequence of strategy evaluations and analytics
\* calls leaves data, returns, mean_returns, cov_matrix, bounds and tickers
\* unchanged, and leaves every weight mapping returned before unchanged.
C19_UseLeavesPortfolioUnchanged ==
  [][pc = "ready" =>
       UNCHANGED <<data, returns, mean_returns, cov_matrix, bounds, tickers,
                   weights_eq, weights_min, weights_sharpe>>]_vars

\* C19 witness: a strategy was evaluated again and then the cumulative
\* returns were plotted (the call that assigns a field).
C19_Witness ==
  /\ pc = "ready"
  /\ solver_calls > 2
  /\ args.method = "plot_cumulative_returns"
  /\ Len(ret.aligned.index) >= 2

\* C20: a second evaluation of min_variance_portfolio (of
\* max_sharpe_ratio_portfolio) on the same price matrix, bounds and
\* constraints returns the weights of the first evaluation.
C20_ReevaluationReturnsSameWeights ==
  /\ (pc = "ready" /\ args.method = "min_variance") => ret.weights = weights_min
  /\ (pc = "ready" /\ args.method = "max_sharpe") => ret.weights = weights_sharpe

\* C20 witness: both solver strategies were evaluated again on a portfolio of
\* two tickers and the last evaluation returned the stored weights.
C20_Witness ==
  /\ pc = "ready"
  /\ Len(tickers) = 2
  /\ solver_calls >= 4
  /\ args.method = "max_sharpe"
  /\ ret.weights = weights_sharpe
  /\ weights_sharpe # weights_min

\* the cumulative value never falls below an earlier value
NonDecreasing(cum) ==
  \A i, j \in DOMAIN cum : i <= j => RatLeq(cum[i], cum[j])

\* C21: get_summary_statistics_table reports a max drawdown for the portfolio
\* and the benchmark; it lies in [-1, 0] and is 0 only when the cumulative
\* return path never falls below its running peak.
C21_MaxDrawdownReported ==
  (pc = "returned" /\ args.method = "get_summary_statistics_table") =>
     /\ "Max Drawdown" \in ret.Metric
     /\ \A who \in {"portfolio", "benchmark"} :
          LET dd == ret[who].max_drawdown
          IN  /\ RatLeq(<<-1, 1>>, dd) /\ RatLeq(dd, Zero)
              /\ dd[1] = 0 => NonDecreasing(CumProd(ret.aligned[who]))

\* the table as build_available_tickers reads it is complete
CompleteTable(csv) == csv.found /\ RequiredColumns \subseteq csv.columns

\* the tickers the claim lists for preferences u and table rows
ExpectedTickers(u, rows) ==
  {rows[i].Ticker : i \in {j \in DOMAIN rows :
     \/ rows[j].Ticker \in u.preferred_stocks
     \/ /\ (IF rows[j].sector = "nan" THEN "Unknown" ELSE rows[j].sector)
              \notin u.sectors_to_avoid
        /\ (IF rows[j].overallRisk = NaN THEN 5 ELSE rows[j].overallRisk)
              <= u.risk_tolerance}}

\* C22: on a complete table build_available_tickers returns exactly the
\* table's preferred tickers plus the non-preferred tickers whose sector is
\* not avoided and whose risk (5 when missing) is at most the tolerance; when
\* the table's tickers are unique no ticker is listed twice.
C22_ListIsPreferredPlusFiltered ==
  (/\ pc \in {"returned", "error"}
   /\ args.method = "build_available_tickers"
   /\ CompleteTable(args.csv))
  => /\ ret.raised = "none"
     /\ Range(ret.tickers) = ExpectedTickers(args.user_data, args.csv.rows)
     /\ NoDuplicates([i \in DOMAIN args.csv.rows |-> args.csv.rows[i].Ticker])
          => NoDuplicates(ret.tickers)

\* C22 witness: a preferred ticker of an avoided sector is listed, next to a
\* ticker admitted with the default risk, from a table of two tickers.
C22_Witness ==
  /\ pc = "returned"
  /\ args.method = "build_available_tickers"
  /\ CompleteTable(args.csv)
  /\ Len(ret.tickers) = 2
  /\ ret.tickers[1] # ret.tickers[2]
  /\ \E i \in DOMAIN args.csv.rows :
        /\ args.csv.rows[i].Ticker \in args.user_data.preferred_stocks
        /\ args.csv.rows[i].sector \in args.user_data.sectors_to_avoid
  /\ \E i \in DOMAIN args.csv.rows :
        /\ args.csv.rows[i].Ticker \notin args.user_data.preferred_stocks
        /\ IsNa(args.csv.rows[i].overallRisk)

\* C23: build_available_tickers raises ValueError to its caller when a
\* required column is missing from ticker_data.csv.
C23_MissingColumnRaises ==
  (/\ pc \in {"returned", "error"}
   /\ args.method = "build_available_tickers"
   /\ args.csv.found
   /\ ~(RequiredColumns \subseteq args.csv.columns))
  => ret.raised = "ValueError"

\* the attempt typed a ticker and every ticker it typed is listed
AllValid(stocks, available) ==
  /\ \E i \in DOMAIN stocks : stocks[i].sym # ""
  /\ \A i \in DOMAIN stocks : stocks[i].sym # "" => stocks[i].sym \in available

LeadingMissing(c) == Cardinality({r \in DOMAIN c : \A j \in 1..r : IsNa(c[j])})
\* the column has n consecutive missing cells
HasMissingRun(c, n) ==
  \E a \in DOMAIN c : /\ a + n - 1 \in DOMAIN c
                       /\ \A r \in a..(a + n - 1) : IsNa(c[r])

\* C25: _get_data drops a column of the forward-filled matrix exactly when it
\* has a run of 4 or more still-missing values: a ticker whose first price is
\* 1 to 3 rows below the first row is kept, one whose first price is 4 or
\* more rows below is dropped, and the other columns keep their place and
\* their forward-filled values.
C25_DropExactlyLongStreaks ==
  [][(pc = "download" /\ pc' = "statistics") =>
       LET joined == Concat(data_list)
           filled == FFill(DropAllNaN(joined))
       IN  /\ \A t \in ColSet(filled) :
                (t \in Range(tickers')) <=> ~HasMissingRun(filled.values[t], 4)
           /\ \A t \in ColSet(filled) :
                /\ LeadingMissing(joined.values[t]) \in 1..3 => t \in Range(tickers')
                /\ LeadingMissing(joined.values[t]) >= 4 => t \notin Range(tickers')
           /\ tickers' = FilterSeq(filled.columns, Range(tickers'))
           /\ data'.columns = tickers'
           /\ data'.index = filled.index
           /\ \A t \in Range(tickers') : \A r \in 2..NRows(filled) :
                data'.values[t][r] = filled.values[t][r]]_vars

\* C25 witness: of two requested tickers one column survived, and its first
\* price is 3 rows below the first row of the matrix.
C25_Witness ==
  /\ pc = "statistics"
  /\ Len(tickers) = 1
  /\ NRows(data) = NumDates
  /\ LeadingMissing(data.values[tickers[1]]) = 3

\* C26: cleaning never changes a price that was present in the raw input:
\* forward-fill and the first-row backfill write only cells that were
\* missing; when the first row is missing in one surviving column, the
\* first-row prices of the other columns stay as supplied.
C26_PresentPricesKept ==
  [][(pc = "download" /\ pc' = "statistics") =>
       LET joined == Concat(data_list)
       IN  \A t \in Range(tickers') : \A r \in 1..NRows(joined) :
              ~IsNa(joined.values[t][r]) => data'.values[t][r] = joined.values[t][r]]_vars

\* self.bounds and self.constraints have been assigned
BoundsSet == Cleaned /\ pc # "statistics" /\ error # "benchmark"

OnStack(screen) == \E i \in DOMAIN app.screen_stack : app.screen_stack[i] = screen

\* C27: in the terminal wizard the optimization screen is on the screen stack
\* only when perform_initialization returned without error (the portfolio is
\* constructed), and once initialize_and_redirect has finished after an empty
\* ticker list or a failed construction, the optimization screen is not on
\* the stack and the status of the data-pulling screen shows the error,
\* whatever Back, Escape, Exit and input events were interleaved.
C27_OptimizationOnlyAfterInitialization ==
  /\ OnStack("optimization") => pc = "ready"
  /\ app.task = "done" =>
       IF pc = "error"
       THEN ~OnStack("optimization") /\ app.status = "Error" /\ app.processes = <<>>
       ELSE pc = "ready"
\* the optimization screen was pushed after the user left the data-pulling
\* screen with Escape while the portfolio was being constructed
C27_Witness ==
  /\ OnStack("optimization")
  /\ ~OnStack("data_pulling")
  /\ pc = "ready"
  /\ app.task = "done"

\* the tickers of the reference table
ReferenceTickers == {WizardCsv.rows[i].Ticker : i \in DOMAIN WizardCsv.rows}

\* the stored preferences are valid
StoredValid ==
  /\ user.preferred_stocks \subseteq ReferenceTickers
  /\ user.risk_tolerance \in 1..10
  /\ 0 < user.max_equity_investment /\ user.max_equity_investment <= 100

\* a step that changes the stored risk tolerance or the stored maximum was
\* made by an entry that is a number of the allowed range, now stored
StoredStep ==
  /\ user'.risk_tolerance # user.risk_tolerance =>
       /\ IntOf(app'.risk_input).raised = "none"
       /\ IntOf(app'.risk_input).value \in 1..10
       /\ user'.risk_tolerance = IntOf(app'.risk_input).value
  /\ user'.max_equity_investment # user.max_equity_investment =>
       /\ FloatOf(app'.max_input).raised = "none"
       /\ ~FloatOf(app'.max_input).nan
       /\ 0 < FloatOf(app'.max_input).value
       /\ FloatOf(app'.max_input).value <= 100
       /\ user'.max_equity_investment = FloatOf(app'.max_input).value

\* C28: after any sequence of events of the terminal wizard the stored
\* preferences are valid (preferred_stocks holds only tickers of the
\* reference table, risk_tolerance is an integer of 1..10,
\* 0 < max_equity_investment <= 100), and only a valid entry changes the
\* stored risk_tolerance or max_equity_investment: an invalid one leaves them
\* as they were.
C28_StoredPreferencesValid == [](StoredValid) /\ [][StoredStep]_vars
\* valid entries (7, 100) were stored and then followed by invalid ones (11,
\* nan), which are in the widgets while the stored values are the valid ones
C28_Witness ==
  /\ app.risk_input = "11"
  /\ user.risk_tolerance = 7
  /\ app.max_input = "nan"
  /\ user.max_equity_investment = 100
  /\ user.preferred_stocks = {"AAPL"}

\* C30: when the application exits through "Exit" of the optimization
\* screen, after any number of "Open Dashboard" presses, no started dashboard
\* process is still alive: each one ended by itself or was terminated.
C30_NoDashboardLeftRunning ==
  app.exited = "exit_optimization" =>
    \A i \in DOMAIN app.processes : app.processes[i] # "alive"

====
